---- MODULE Spec2Model ----
(***************************************************************************)
(* Model of main.py: the /check-eligibility endpoint.                      *)
(*                                                                         *)
(* A request is validated by the pydantic models Qualification and         *)
(* Student, then handled by check_eligibility, which logs the validated    *)
(* student, evaluates check_course_eligibility, scans COURSE_RULES with    *)
(* recommend_alternatives when the student is not eligible, builds the     *)
(* response, logs it and returns it.                                       *)
(*                                                                         *)
(* Strings are TLA+ strings, except the student's name, which is a         *)
(* sequence of one-character strings so that the regular expression and    *)
(* strip() of the name validator are computed.  A percentage is the exact  *)
(* rational num/den; marks are integer valued, for which the comparison    *)
(* of sum/len against an integer cutoff is exact in binary floating point. *)
(***************************************************************************)
EXTENDS Integers, Sequences, FiniteSets, TLC

VARIABLES req, pc, student, response, inputStream, inputFile,
          outputStream, outputFile, pctArgs, recInvoked, exc

vars == <<req, pc, student, response, inputStream, inputFile,
          outputStream, outputFile, pctArgs, recInvoked, exc>>

----------------------------------------------------------------------------
(* Bounds of the model *)

MaxClients == 2
MaxNameLen == 2

(* Program constants *)

MinAge == 17
MaxAge == 25
MinSubjects == 3
MaxMark == 100

----------------------------------------------------------------------------
(* The rule table *)

None == "<None>"

PCM == {"Physics", "Chemistry", "Mathematics"}
PCB == {"Physics", "Chemistry", "Biology"}
ABE == {"Accountancy", "Business Studies", "Economics"}

Rule(subjs, cutoff, exam) == [subjs |-> subjs, cutoff |-> cutoff, exam |-> exam]

CourseOrder ==
  << "CSE", "ME", "EE", "CIVIL", "ECE",
     "MBBS", "BDS", "BAMS", "BHMS", "BPT",
     "BCOM", "BBA", "BBM", "CA",
     "BA_HISTORY", "BA_PSYCHOLOGY", "BA_SOCIETY", "BA_POLITICALSCI",
     "BA_ENGLISH" >>

Courses == { CourseOrder[i] : i \in 1..Len(CourseOrder) }

COURSE_RULES ==
  [ c \in Courses |->
      CASE c = "CSE"   -> Rule(PCM, 75, "JEE")
        [] c = "ME"    -> Rule(PCM, 70, "JEE")
        [] c = "EE"    -> Rule(PCM, 70, "JEE")
        [] c = "CIVIL" -> Rule(PCM, 65, "JEE")
        [] c = "ECE"   -> Rule(PCM, 70, "JEE")
        [] c = "MBBS"  -> Rule(PCB, 85, "NEET")
        [] c = "BDS"   -> Rule(PCB, 80, "NEET")
        [] c = "BAMS"  -> Rule(PCB, 75, "NEET")
        [] c = "BHMS"  -> Rule(PCB, 75, "NEET")
        [] c = "BPT"   -> Rule(PCB, 70, "NEET")
        [] c = "BCOM"  -> Rule(ABE, 0, None)
        [] c = "BBA"   -> Rule(ABE, 0, None)
        [] c = "BBM"   -> Rule(ABE, 0, None)
        [] c = "CA"    -> Rule(ABE, 0, None)
        [] c = "BA_HISTORY" ->
             Rule({"History", "Political Science", "Geography"}, 0, None)
        [] c = "BA_PSYCHOLOGY" ->
             Rule({"Psychology", "Sociology", "English"}, 0, None)
        [] c = "BA_SOCIETY" ->
             Rule({"Sociology", "Political Science", "History"}, 0, None)
        [] c = "BA_POLITICALSCI" ->
             Rule({"Political Science", "History", "Geography"}, 0, None)
        [] c = "BA_ENGLISH" ->
             Rule({"English", "History", "Political Science"}, 0, None) ]

----------------------------------------------------------------------------
(* Field validators of the pydantic models *)

Letters == {"A", "b"}

\* str.upper() on the strings the requests are drawn from
Upper(v) ==
  CASE v = "jee"   -> "JEE"
    [] v = "Neet"  -> "NEET"
    [] v = "None"  -> "NONE"
    [] v = "gate"  -> "GATE"
    [] v = "cse"   -> "CSE"
    [] v = "Civil" -> "CIVIL"
    [] v = "law"   -> "LAW"
    [] OTHER       -> v

\* str.strip() on a string that holds letters and spaces
RECURSIVE LStrip(_)
LStrip(v) == IF v # <<>> /\ Head(v) = " " THEN LStrip(Tail(v)) ELSE v

RECURSIVE RStrip(_)
RStrip(v) ==
  IF v # <<>> /\ v[Len(v)] = " " THEN RStrip(SubSeq(v, 1, Len(v) - 1)) ELSE v

Strip(v) == RStrip(LStrip(v))

\* Each validator yields [ok, value]: ok is FALSE where the code raises
\* ValueError, value is what the validator returns.
Valid(v) == [ok |-> TRUE, value |-> v]
Invalid(v) == [ok |-> FALSE, value |-> v]

exam_must_be_known(v) ==
  IF Upper(v) \notin {"JEE", "NEET", "NONE"} THEN Invalid(v) ELSE Valid(Upper(v))

name_letters_spaces(v) ==
  IF ~ (Len(v) >= 1 /\ \A i \in 1..Len(v) : v[i] \in Letters \cup {" "})
  THEN Invalid(v)
  ELSE Valid(Strip(v))

age_range(v) == IF ~ (MinAge <= v /\ v <= MaxAge) THEN Invalid(v) ELSE Valid(v)

gender_values(v) ==
  IF v \notin {"Male", "Female", "Other"} THEN Invalid(v) ELSE Valid(v)

\* Variant: the number of subjects is not checked
marks_range_and_count_NoCount(v) ==
  IF \E subj \in DOMAIN v : ~ (0 <= v[subj] /\ v[subj] <= MaxMark)
  THEN Invalid(v)
  ELSE Valid(v)

marks_range_and_count(v) ==
  IF \E subj \in DOMAIN v : ~ (0 <= v[subj] /\ v[subj] <= MaxMark)
  THEN Invalid(v)
  ELSE IF Cardinality(DOMAIN v) < MinSubjects THEN Invalid(v) ELSE Valid(v)

course_must_be_defined(v) ==
  IF Upper(v) \notin Courses THEN Invalid(v) ELSE Valid(Upper(v))

\* Construction of Student from the request body: every field validator runs,
\* the request is rejected if any of them raised.
ParseStudent(body) ==
  LET name   == name_letters_spaces(body.name)
      age    == age_range(body.age)
      gender == gender_values(body.gender)
      marks  == marks_range_and_count(body.marks)
      exam   == exam_must_be_known(body.qualification.exam)
      course == course_must_be_defined(body.desired_course)
  IN [ ok |-> name.ok /\ age.ok /\ gender.ok /\ marks.ok /\ exam.ok /\ course.ok,
       value |-> [ name |-> name.value,
                   age |-> age.value,
                   gender |-> gender.value,
                   marks |-> marks.value,
                   qualification |->
                     [ exam |-> exam.value,
                       qualified |-> body.qualification.qualified ],
                   desired_course |-> course.value ] ]

----------------------------------------------------------------------------
(* Eligibility logic *)

RECURSIVE SumOver(_, _)
SumOver(marks, subjs) ==
  IF subjs = {} THEN 0
  ELSE LET s == CHOOSE x \in subjs : TRUE
       IN marks[s] + SumOver(marks, subjs \ {s})

\* sum(marks.values()) / len(marks), as the rational num/den; the division
\* raises ZeroDivisionError when den = 0.
calculate_percentage(marks) ==
  [num |-> SumOver(marks, DOMAIN marks), den |-> Cardinality(DOMAIN marks)]

\* Variants of the cutoff comparison: pct <= cutoff, and pct > cutoff
PctBelow_OrEqual(pct, cutoff) == pct.num <= cutoff * pct.den

PctBelow_Flipped(pct, cutoff) == pct.num > cutoff * pct.den

\* pct < cutoff for a percentage with den > 0
PctBelow(pct, cutoff) == pct.num < cutoff * pct.den

\* round(pct, 2), in hundredths (round half to even)
Round2(pct) ==
  LET n == pct.num * 100
      q == n \div pct.den
      r == n % pct.den
  IN IF 2 * r < pct.den THEN q
     ELSE IF 2 * r > pct.den THEN q + 1
     ELSE IF q % 2 = 0 THEN q ELSE q + 1

\* Outcome of a call: the value returned (ret), the exception raised (raised,
\* "none" when the call returns) and the key sets of the mappings that were
\* passed to calculate_percentage during the call (args).
Return(v, args) == [ret |-> v, raised |-> "none", args |-> args]
Raise(e, args) == [ret |-> FALSE, raised |-> e, args |-> args]

\* {s: student.marks[s] for s in subjs} followed by calculate_percentage:
\* KeyError for a subject that is not in marks, ZeroDivisionError for an
\* empty subject set.
SubsetPercentage(marks, subjs) ==
  IF ~ (subjs \subseteq DOMAIN marks) THEN Raise("KeyError", {})
  ELSE IF subjs = {} THEN Raise("ZeroDivisionError", {subjs})
  ELSE Return(calculate_percentage([s \in subjs |-> marks[s]]), {subjs})

\* Variant: the exam gate ignores the qualified flag
check_course_eligibility_ExamOnly(st) ==
  LET rule == COURSE_RULES[st.desired_course]
      pct  == SubsetPercentage(st.marks, rule.subjs)
  IN IF rule.exam # None /\ st.qualification.exam # rule.exam
     THEN Return(FALSE, {})
     ELSE IF ~ (rule.subjs \subseteq DOMAIN st.marks)
     THEN Return(FALSE, {})
     ELSE IF pct.raised # "none" THEN pct
     ELSE IF rule.cutoff > 0 /\ PctBelow(pct.ret, rule.cutoff)
     THEN Return(FALSE, pct.args)
     ELSE Return(TRUE, pct.args)

\* Variant: the exam gate fails only when both conditions fail
check_course_eligibility_ExamAnd(st) ==
  LET rule == COURSE_RULES[st.desired_course]
      pct  == SubsetPercentage(st.marks, rule.subjs)
  IN IF rule.exam # None
        /\ (st.qualification.exam # rule.exam /\ ~ st.qualification.qualified)
     THEN Return(FALSE, {})
     ELSE IF ~ (rule.subjs \subseteq DOMAIN st.marks)
     THEN Return(FALSE, {})
     ELSE IF pct.raised # "none" THEN pct
     ELSE IF rule.cutoff > 0 /\ PctBelow(pct.ret, rule.cutoff)
     THEN Return(FALSE, pct.args)
     ELSE Return(TRUE, pct.args)

\* Variant: no subject-coverage gate
check_course_eligibility_NoSubjectGate(st) ==
  LET rule == COURSE_RULES[st.desired_course]
      pct  == SubsetPercentage(st.marks, rule.subjs)
  IN IF rule.exam # None
        /\ (st.qualification.exam # rule.exam \/ ~ st.qualification.qualified)
     THEN Return(FALSE, {})
     ELSE IF pct.raised # "none" THEN pct
     ELSE IF rule.cutoff > 0 /\ PctBelow(pct.ret, rule.cutoff)
     THEN Return(FALSE, pct.args)
     ELSE Return(TRUE, pct.args)

check_course_eligibility(st) ==
  LET course    == st.desired_course
      rule      == COURSE_RULES[course]
      req_subjs == rule.subjs
      cutoff    == rule.cutoff
      req_exam  == rule.exam
      pct       == SubsetPercentage(st.marks, req_subjs)
  IN IF req_exam # None
        /\ (st.qualification.exam # req_exam \/ ~ st.qualification.qualified)
     THEN Return(FALSE, {})
     ELSE IF ~ (req_subjs \subseteq DOMAIN st.marks)
     THEN Return(FALSE, {})
     ELSE IF pct.raised # "none" THEN pct
     ELSE IF cutoff > 0 /\ PctBelow(pct.ret, cutoff)
     THEN Return(FALSE, pct.args)
     ELSE Return(TRUE, pct.args)

\* The loop of recommend_alternatives from the i-th entry of COURSE_RULES on,
\* with the list built so far and the calculate_percentage arguments so far.
RECURSIVE RecommendFrom(_, _, _, _)
RecommendFrom(st, i, recs, args) ==
  IF i > Len(CourseOrder) THEN Return(recs, args)
  ELSE
    LET crs      == CourseOrder[i]
        subjs    == COURSE_RULES[crs].subjs
        cutoff   == COURSE_RULES[crs].cutoff
        req_exam == COURSE_RULES[crs].exam
        pct      == SubsetPercentage(st.marks, subjs)
    IN IF req_exam # None
          /\ (st.qualification.exam # req_exam \/ ~ st.qualification.qualified)
       THEN RecommendFrom(st, i + 1, recs, args)
       ELSE IF ~ (subjs \subseteq DOMAIN st.marks)
       THEN RecommendFrom(st, i + 1, recs, args)
       ELSE IF pct.raised # "none"
       THEN Raise(pct.raised, args \cup pct.args)
       ELSE IF cutoff > 0 /\ PctBelow(pct.ret, cutoff)
       THEN RecommendFrom(st, i + 1, recs, args \cup pct.args)
       ELSE RecommendFrom(st, i + 1, Append(recs, crs), args \cup pct.args)

RECURSIVE Reverse(_)
Reverse(q) == IF q = <<>> THEN <<>> ELSE Append(Reverse(Tail(q)), Head(q))

\* Variant: courses are put at the front of the list
recommend_alternatives_Prepend(st) ==
  LET out == RecommendFrom(st, 1, <<>>, {})
  IN [out EXCEPT !.ret = IF out.raised = "none" THEN Reverse(out.ret) ELSE out.ret]

recommend_alternatives(st) == RecommendFrom(st, 1, <<>>, {})

----------------------------------------------------------------------------
(* Request bodies the clients send *)

NameAlphabet == {"A", " ", "1"}

RECURSIVE NamesUpTo(_)
NamesUpTo(n) ==
  IF n = 0 THEN { <<>> }
  ELSE LET shorter == NamesUpTo(n - 1)
       IN shorter \cup { Append(v, ch) : v \in { w \in shorter : Len(w) = n - 1 },
                                         ch \in NameAlphabet }

Names == NamesUpTo(MaxNameLen)

MarkValues == {60, 75, 90}

SubjectSets ==
  { PCM, PCB, PCM \cup PCB, ABE,
    {"History", "Political Science", "Geography"},
    {"Psychology", "Sociology", "English"},
    {"Sociology", "Political Science", "History"},
    {"English", "History", "Political Science"} }

Body(name, age, gender, marks, exam, qualified, course) ==
  [ name |-> name, age |-> age, gender |-> gender, marks |-> marks,
    qualification |-> [exam |-> exam, qualified |-> qualified],
    desired_course |-> course ]

AllMarks(v) == [s \in PCM |-> v]

\* Well-formed personal fields, every combination of marks, exam and course
EvalBodies ==
  { Body(<<"A", "b">>, 18, "Female", m, e, q, c) :
      m \in UNION { [D -> MarkValues] : D \in SubjectSets },
      e \in {"JEE", "NEET", "NONE"}, q \in BOOLEAN, c \in Courses }

\* One field at a time taken through its valid and invalid values
FieldBodies ==
     { Body(n, 17, "Male", AllMarks(80), "JEE", TRUE, "CSE") : n \in Names }
  \cup { Body(<<"A">>, a, "Male", AllMarks(80), "JEE", TRUE, "CSE") :
           a \in {MinAge - 1, MinAge, MaxAge, MaxAge + 1} }
  \cup { Body(<<"A">>, 17, g, AllMarks(80), "JEE", TRUE, "CSE") :
           g \in {"Male", "Female", "Other", "male", ""} }
  \cup { Body(<<"A">>, 17, "Male", m, "JEE", TRUE, "CSE") :
           m \in { AllMarks(0), AllMarks(MaxMark), AllMarks(MaxMark + 1),
                   AllMarks(-1), [s \in {} |-> 0],
                   [s \in {"Physics", "Chemistry"} |-> 80],
                   [s \in {"Physics", "Chemistry", "Hindi"} |-> 80] } }
  \cup { Body(<<"A">>, 17, "Male", AllMarks(80), e, q, "CSE") :
           e \in {"JEE", "jee", "Neet", "None", "gate", "GATE"}, q \in BOOLEAN }
  \cup { Body(<<"A">>, 17, "Male", AllMarks(80), "JEE", TRUE, c) :
           c \in {"cse", "Civil", "law", "LAW"} }

Bodies == EvalBodies \cup FieldBodies

\* The requests of the concurrent clients
ConcurrentBodies ==
  { Body(<<"A">>, 17, "Male", AllMarks(80), "JEE", TRUE, "CSE"),
    Body(<<"A">>, 17, "Male", AllMarks(80), "JEE", FALSE, "CSE"),
    Body(<<" ", "b">>, 25, "Other", AllMarks(60), "jee", TRUE, "ME"),
    Body(<<"1">>, 17, "Male", AllMarks(80), "JEE", TRUE, "CSE") }

Uuids == {"id1", "id2"}

----------------------------------------------------------------------------
(* The endpoint *)

Clients == DOMAIN req

NoValue == [none |-> TRUE]

Entry(r, msg) == [client |-> r, msg |-> msg]

InitWith(bodies, n) ==
  /\ req \in [1..n -> bodies]
  /\ pc = [r \in 1..n |-> "received"]
  /\ student = [r \in 1..n |-> NoValue]
  /\ response = [r \in 1..n |-> NoValue]
  /\ inputStream = <<>>
  /\ inputFile = <<>>
  /\ outputStream = <<>>
  /\ outputFile = <<>>
  /\ pctArgs = [r \in 1..n |-> {}]
  /\ recInvoked = [r \in 1..n |-> FALSE]
  /\ exc = [r \in 1..n |-> "none"]

Init == InitWith(Bodies, 1)

InitConcurrent == InitWith(ConcurrentBodies, MaxClients)

\* The body does not validate: the handler is not called.
Reject(r) ==
  /\ pc[r] = "received"
  /\ ~ ParseStudent(req[r]).ok
  /\ pc' = [pc EXCEPT ![r] = "rejected"]
  /\ UNCHANGED <<req, student, response, inputStream, inputFile, outputStream,
                 outputFile, pctArgs, recInvoked, exc>>

\* The body validates: check_eligibility is called with the Student.
Accept(r) ==
  /\ pc[r] = "received"
  /\ ParseStudent(req[r]).ok
  /\ student' = [student EXCEPT ![r] = ParseStudent(req[r]).value]
  /\ pc' = [pc EXCEPT ![r] = "log_input"]
  /\ UNCHANGED <<req, response, inputStream, inputFile, outputStream,
                 outputFile, pctArgs, recInvoked, exc>>

\* input_logger.info(student.json())
LogInput(r) ==
  /\ pc[r] = "log_input"
  /\ inputStream' = Append(inputStream, Entry(r, student[r]))
  /\ pc' = [pc EXCEPT ![r] = "flush_input"]
  /\ UNCHANGED <<req, student, response, inputFile, outputStream, outputFile,
                 pctArgs, recInvoked, exc>>

\* Variant: the input handler is not flushed
FlushInput_NoFlush(r) ==
  /\ pc[r] = "flush_input"
  /\ pc' = [pc EXCEPT ![r] = "evaluate"]
  /\ UNCHANGED <<req, student, response, inputStream, inputFile, outputStream,
                 outputFile, pctArgs, recInvoked, exc>>

\* input_logger.handlers[0].flush()
FlushInput(r) ==
  /\ pc[r] = "flush_input"
  /\ inputFile' = inputFile \o inputStream
  /\ inputStream' = <<>>
  /\ pc' = [pc EXCEPT ![r] = "evaluate"]
  /\ UNCHANGED <<req, student, response, outputStream, outputFile, pctArgs,
                 recInvoked, exc>>

\* Variant: the recommended_courses key is always set
BuildResponse_AlwaysKey(id, eligible, overall_pct, recommended) ==
  [ student_id |-> id, eligible |-> eligible,
    percentage |-> Round2(overall_pct),
    recommended_courses |-> recommended ]

\* The response dictionary
BuildResponse(id, eligible, overall_pct, recommended) ==
  IF recommended # None
  THEN [ student_id |-> id, eligible |-> eligible,
         percentage |-> Round2(overall_pct),
         recommended_courses |-> recommended ]
  ELSE [ student_id |-> id, eligible |-> eligible,
         percentage |-> Round2(overall_pct) ]

\* Steps 2 to 5 of check_eligibility: overall percentage, eligibility,
\* recommendations if needed, response.  An exception leaves the handler.
Evaluate(r) ==
  /\ pc[r] = "evaluate"
  /\ LET st       == student[r]
         overall  == calculate_percentage(st.marks)
         elig     == check_course_eligibility(st)
         needRecs == elig.raised = "none" /\ ~ elig.ret
         recs     == recommend_alternatives(st)
         raised   == IF overall.den = 0 THEN "ZeroDivisionError"
                     ELSE IF elig.raised # "none" THEN elig.raised
                     ELSE IF needRecs THEN recs.raised
                     ELSE "none"
         args     == {DOMAIN st.marks}
                       \cup (IF overall.den # 0 THEN elig.args ELSE {})
                       \cup (IF overall.den # 0 /\ needRecs THEN recs.args ELSE {})
     IN /\ pctArgs' = [pctArgs EXCEPT ![r] = args]
        /\ exc' = [exc EXCEPT ![r] = raised]
        /\ recInvoked' = [recInvoked EXCEPT ![r] = overall.den # 0 /\ needRecs]
        /\ IF raised # "none"
           THEN /\ pc' = [pc EXCEPT ![r] = "failed"]
                /\ UNCHANGED response
           ELSE /\ \E id \in Uuids :
                     response' = [response EXCEPT ![r] =
                        BuildResponse(id, elig.ret, overall,
                                      IF needRecs THEN recs.ret ELSE None)]
                /\ pc' = [pc EXCEPT ![r] = "log_output"]
  /\ UNCHANGED <<req, student, inputStream, inputFile, outputStream, outputFile>>

\* output_logger.info(response)
LogOutput(r) ==
  /\ pc[r] = "log_output"
  /\ outputStream' = Append(outputStream, Entry(r, response[r]))
  /\ pc' = [pc EXCEPT ![r] = "flush_output"]
  /\ UNCHANGED <<req, student, response, inputStream, inputFile, outputFile,
                 pctArgs, recInvoked, exc>>

\* output_logger.handlers[0].flush()
FlushOutput(r) ==
  /\ pc[r] = "flush_output"
  /\ outputFile' = outputFile \o outputStream
  /\ outputStream' = <<>>
  /\ pc' = [pc EXCEPT ![r] = "return"]
  /\ UNCHANGED <<req, student, response, inputStream, inputFile, pctArgs,
                 recInvoked, exc>>

\* return response
ReturnResponse(r) ==
  /\ pc[r] = "return"
  /\ pc' = [pc EXCEPT ![r] = "returned"]
  /\ UNCHANGED <<req, student, response, inputStream, inputFile, outputStream,
                 outputFile, pctArgs, recInvoked, exc>>

Next ==
  \E r \in Clients :
    \/ Reject(r)
    \/ Accept(r)
    \/ LogInput(r)
    \/ FlushInput(r)
    \/ Evaluate(r)
    \/ LogOutput(r)
    \/ FlushOutput(r)
    \/ ReturnResponse(r)

Spec == Init /\ [][Next]_vars

SpecConcurrent == InitConcurrent /\ [][Next]_vars

----------------------------------------------------------------------------
(* Properties *)

\* The handler was called for r (the body validated)
Validated(r) == pc[r] \notin {"received", "rejected"}

\* The response of r has been built
Evaluated(r) == pc[r] \in {"log_output", "flush_output", "return", "returned"}

JEECourses == {"CSE", "ME", "EE", "CIVIL", "ECE"}
NEETCourses == {"MBBS", "BDS", "BAMS", "BHMS", "BPT"}

ExamFor(c) ==
  IF c \in JEECourses THEN "JEE" ELSE IF c \in NEETCourses THEN "NEET" ELSE None

\* The student passes the exam gate of course c
ExamGate(st, c) ==
  ExamFor(c) = None
    \/ (st.qualification.exam = ExamFor(c) /\ st.qualification.qualified)

\* The student has a mark for every required subject of course c
Covers(st, c) == COURSE_RULES[c].subjs \subseteq DOMAIN st.marks

RequiredSum(st, c) == SumOver(st.marks, COURSE_RULES[c].subjs)

RequiredCount(c) == Cardinality(COURSE_RULES[c].subjs)

\* The mean of the marks of the required subjects of c is below the cutoff
MeanBelowCutoff(st, c) ==
  RequiredSum(st, c) < COURSE_RULES[c].cutoff * RequiredCount(c)

\* C1: for a validated student whose desired course requires an exam (JEE for
\* CSE, ME, EE, CIVIL, ECE; NEET for MBBS, BDS, BAMS, BHMS, BPT),
\* check_course_eligibility returns False whenever the qualification exam
\* differs from the required one or qualified is false, whatever the marks.
C1_ExamGateFails ==
  \A r \in Clients :
    Validated(r) =>
      LET st == student[r]
          c  == st.desired_course
          e  == check_course_eligibility(st)
      IN /\ c \in JEECourses \cup NEETCourses => COURSE_RULES[c].exam = ExamFor(c)
         /\ (c \in JEECourses \cup NEETCourses /\ ~ ExamGate(st, c))
              => (e.raised = "none" /\ e.ret = FALSE)
         /\ (c \in JEECourses \cup NEETCourses /\ ~ ExamGate(st, c) /\ Evaluated(r))
              => response[r].eligible = FALSE

\* A student with the right exam, not qualified, full marks coverage and a
\* mean above the cutoff was answered "not eligible".
C1_Witness ==
  \E r \in Clients :
    /\ pc[r] = "returned"
    /\ student[r].desired_course \in JEECourses
    /\ student[r].qualification.exam = "JEE"
    /\ ~ student[r].qualification.qualified
    /\ Covers(student[r], student[r].desired_course)
    /\ ~ MeanBelowCutoff(student[r], student[r].desired_course)
    /\ response[r].eligible = FALSE

\* C2: for a validated student who passes the exam gate and has every required
\* subject, check_course_eligibility returns False when the mean of the
\* required subjects' marks is below a positive cutoff, and True when the mean
\* is at or above the cutoff or the cutoff is 0.
C2_CutoffGate ==
  \A r \in Clients :
    Validated(r) =>
      LET st == student[r]
          c  == st.desired_course
          e  == check_course_eligibility(st)
      IN (ExamGate(st, c) /\ Covers(st, c)) =>
           /\ e.raised = "none"
           /\ (COURSE_RULES[c].cutoff > 0 /\ MeanBelowCutoff(st, c))
                => e.ret = FALSE
           /\ (COURSE_RULES[c].cutoff = 0 \/ ~ MeanBelowCutoff(st, c))
                => e.ret = TRUE
           /\ Evaluated(r) => response[r].eligible = e.ret

\* A student whose required-subject mean equals a positive cutoff exactly, and
\* whose mean over all submitted subjects is below that cutoff, was answered
\* "eligible".
C2_Witness ==
  \E r \in Clients :
    LET st == student[r]
        c  == st.desired_course
    IN /\ pc[r] = "returned"
       /\ ExamGate(st, c) /\ Covers(st, c)
       /\ COURSE_RULES[c].cutoff > 0
       /\ RequiredSum(st, c) = COURSE_RULES[c].cutoff * RequiredCount(c)
       /\ response[r].percentage < COURSE_RULES[c].cutoff * 100
       /\ response[r].eligible = TRUE

\* C3: for a validated student whose marks lack a required subject of the
\* desired course, check_course_eligibility returns False, whatever the exam,
\* the qualified flag and the marks that are present.
C3_MissingSubject ==
  \A r \in Clients :
    Validated(r) =>
      LET st == student[r]
          c  == st.desired_course
          e  == check_course_eligibility(st)
      IN ~ Covers(st, c) =>
           /\ e.raised = "none" /\ e.ret = FALSE
           /\ Evaluated(r) => response[r].eligible = FALSE
           /\ pc[r] # "failed"

\* A student who passes the exam gate but lacks a required subject was
\* answered "not eligible".
C3_Witness ==
  \E r \in Clients :
    LET st == student[r]
        c  == st.desired_course
    IN /\ pc[r] = "returned"
       /\ ExamGate(st, c)
       /\ ~ Covers(st, c)
       /\ response[r].eligible = FALSE

\* The student passes the three gates of course c's own rule
ThreeGates(st, c) ==
  /\ ExamGate(st, c)
  /\ Covers(st, c)
  /\ (COURSE_RULES[c].cutoff = 0 \/ ~ MeanBelowCutoff(st, c))

InList(q, c) == \E i \in 1..Len(q) : q[i] = c

PositionOf(c) == CHOOSE i \in 1..Len(CourseOrder) : CourseOrder[i] = c

\* q lists courses in COURSE_RULES definition order, each at most once
InTableOrder(q) ==
  \A i, j \in 1..Len(q) :
    i < j => (q[i] \in Courses /\ q[j] \in Courses
              /\ PositionOf(q[i]) < PositionOf(q[j]))

\* C4: the list returned by recommend_alternatives contains a course if and
\* only if the student passes the three gates of that course's rule; the
\* courses appear once each, in COURSE_RULES definition order, and an
\* ineligible response carries exactly this list.
C4_Recommendations ==
  \A r \in Clients :
    Validated(r) =>
      LET st   == student[r]
          recs == recommend_alternatives(st)
      IN /\ recs.raised = "none"
         /\ \A c \in Courses : InList(recs.ret, c) <=> ThreeGates(st, c)
         /\ \A i \in 1..Len(recs.ret) : recs.ret[i] \in Courses
         /\ InTableOrder(recs.ret)
         /\ (Evaluated(r) /\ ~ response[r].eligible)
              => response[r].recommended_courses = recs.ret

\* An ineligible student was recommended several courses while other courses
\* of the same family were left out by the cutoff.
C4_Witness ==
  \E r \in Clients :
    /\ pc[r] = "returned"
    /\ ~ response[r].eligible
    /\ response[r].recommended_courses = <<"ME", "EE", "CIVIL", "ECE">>

\* The scenario of C5: marks 60 in Physics, Chemistry and Mathematics, JEE
\* qualified, desired course CSE.
C5_Scenario(r) ==
  /\ student[r].marks = AllMarks(60)
  /\ student[r].qualification = [exam |-> "JEE", qualified |-> TRUE]
  /\ student[r].desired_course = "CSE"

\* C5 as stated: the response to the scenario has eligible = false and its
\* recommended_courses includes CIVIL and none of CSE, ME, EE, ECE.
C5_Original ==
  \A r \in Clients :
    (pc[r] = "returned" /\ C5_Scenario(r)) =>
      /\ response[r].eligible = FALSE
      /\ InList(response[r].recommended_courses, "CIVIL")
      /\ \A c \in {"CSE", "ME", "EE", "ECE"} :
           ~ InList(response[r].recommended_courses, c)

\* C5 amended: the response to the scenario has eligible = false and an empty
\* recommended_courses list, which includes neither CIVIL (the mean 60 is
\* below its cutoff 65) nor CSE, ME, EE, ECE.
C5_Amended ==
  \A r \in Clients :
    (pc[r] = "returned" /\ C5_Scenario(r)) =>
      /\ response[r].eligible = FALSE
      /\ "recommended_courses" \in DOMAIN response[r]
      /\ response[r].recommended_courses = <<>>
      /\ \A c \in {"CIVIL", "CSE", "ME", "EE", "ECE"} :
           ~ InList(response[r].recommended_courses, c)

\* The scenario was submitted and answered.
C5_Witness ==
  \E r \in Clients :
    /\ pc[r] = "returned"
    /\ C5_Scenario(r)
    /\ response[r].percentage = 6000

\* The input constraints, on the request body
BodyConstraints(b) ==
  /\ Strip(b.name) # <<>>
  /\ \A i \in 1..Len(b.name) : b.name[i] \in Letters \cup {" "}
  /\ b.age \in 17..25
  /\ b.gender \in {"Male", "Female", "Other"}
  /\ \A s \in DOMAIN b.marks : b.marks[s] \in 0..100
  /\ Cardinality(DOMAIN b.marks) >= 3
  /\ Upper(b.qualification.exam) \in {"JEE", "NEET", "NONE"}
  /\ Upper(b.desired_course) \in Courses

\* The input constraints, on the Student handed to the handler
StudentConstraints(st) ==
  /\ st.name # <<>>
  /\ \A i \in 1..Len(st.name) : st.name[i] \in Letters \cup {" "}
  /\ st.age \in 17..25
  /\ st.gender \in {"Male", "Female", "Other"}
  /\ \A s \in DOMAIN st.marks : st.marks[s] \in 0..100
  /\ Cardinality(DOMAIN st.marks) >= 3
  /\ st.qualification.exam \in {"JEE", "NEET", "NONE"}
  /\ st.desired_course \in Courses

Logged(log, r) == \E i \in 1..Len(log) : log[i].client = r

\* C6: a request whose body violates an input constraint is rejected before
\* check_eligibility runs (nothing is evaluated, nothing is logged), and every
\* Student that reaches the evaluator satisfies the constraints; in particular
\* its stored name is non-empty.
C6_RejectedBeforeCore ==
  \A r \in Clients :
    /\ ~ BodyConstraints(req[r]) =>
         /\ pc[r] \in {"received", "rejected"}
         /\ ~ Logged(inputStream \o inputFile, r)
         /\ ~ Logged(outputStream \o outputFile, r)
         /\ pctArgs[r] = {}
    /\ Validated(r) => StudentConstraints(student[r])

\* C7: in every response recommended_courses is present if and only if
\* eligible is false; recommend_alternatives is invoked only when
\* check_course_eligibility returned False; an eligible response carries only
\* student_id, eligible and percentage; an ineligible one carries the list
\* even when it is empty.
C7_RecommendedKey ==
  \A r \in Clients :
    Evaluated(r) =>
      /\ ("recommended_courses" \in DOMAIN response[r])
           <=> (response[r].eligible = FALSE)
      /\ recInvoked[r] <=> ~ check_course_eligibility(student[r]).ret
      /\ recInvoked[r] <=> (response[r].eligible = FALSE)
      /\ response[r].eligible = TRUE
           => DOMAIN response[r] = {"student_id", "eligible", "percentage"}
      /\ response[r].eligible = FALSE
           => /\ DOMAIN response[r] =
                   {"student_id", "eligible", "percentage", "recommended_courses"}
              /\ response[r].recommended_courses \in Seq(Courses)

\* The example of C7: marks 80 in Physics, Chemistry and Mathematics, JEE not
\* qualified, CSE, answered with an empty list.
C7_Witness ==
  \E r \in Clients :
    /\ pc[r] = "returned"
    /\ student[r].marks = AllMarks(80)
    /\ student[r].qualification = [exam |-> "JEE", qualified |-> FALSE]
    /\ student[r].desired_course = "CSE"
    /\ recInvoked[r]
    /\ response[r].eligible = FALSE
    /\ response[r].recommended_courses = <<>>

\* Number of entries of client r in a log
Count(log, r) == Cardinality({ i \in 1..Len(log) : log[i].client = r })

\* The entries of client r in a log, in order
RECURSIVE EntriesOf(_, _)
EntriesOf(log, r) ==
  IF log = <<>> THEN <<>>
  ELSE IF Head(log).client = r
       THEN <<Head(log).msg>> \o EntriesOf(Tail(log), r)
       ELSE EntriesOf(Tail(log), r)

\* C8: under any interleaving of requests, an accepted request has exactly one
\* input entry, the validated student, flushed before eligibility is
\* evaluated, and exactly one result entry, equal to the response, flushed
\* before the response is returned; the input entry is flushed before the
\* result entry is written, and neither is ever written twice.
C8_AuditLog ==
  \A r \in Clients :
    /\ Count(inputStream \o inputFile, r) <= 1
    /\ Count(outputStream \o outputFile, r) <= 1
    /\ pc[r] \in {"evaluate", "log_output", "flush_output", "return",
                  "returned", "failed"}
         => EntriesOf(inputFile, r) = <<student[r]>>
    /\ Logged(outputStream \o outputFile, r)
         => EntriesOf(inputFile, r) = <<student[r]>>
    /\ pc[r] \in {"return", "returned"}
         => EntriesOf(outputFile, r) = <<response[r]>>
    /\ pc[r] \in {"received", "rejected", "log_input", "flush_input", "evaluate"}
         => ~ Logged(outputStream \o outputFile, r)

\* Two requests were answered, their entries in the two files in opposite
\* orders.
C8_Witness ==
  \E r1, r2 \in Clients :
    /\ r1 # r2
    /\ pc[r1] = "returned" /\ pc[r2] = "returned"
    /\ Len(inputFile) = 2 /\ Len(outputFile) = 2
    /\ inputFile[1].client = r1 /\ outputFile[1].client = r2
    /\ student[r1] # student[r2]

\* C9: calculate_percentage is never called with an empty mapping and no
\* required subject is looked up in marks without being present: no handler
\* raises, the overall call receives at least 3 marks, and every other call
\* receives a non-empty required subject set covered by the marks.
C9_NoEmptyPercentage ==
  \A r \in Clients :
    /\ exc[r] = "none"
    /\ pc[r] # "failed"
    /\ \A d \in pctArgs[r] : d # {} /\ d \subseteq DOMAIN student[r].marks
    /\ Evaluated(r) =>
         /\ DOMAIN student[r].marks \in pctArgs[r]
         /\ Cardinality(DOMAIN student[r].marks) >= 3
         /\ \A d \in pctArgs[r] \ {DOMAIN student[r].marks} :
              \E c \in Courses : d = COURSE_RULES[c].subjs

\* A request whose marks cover some required subject sets and not others was
\* answered after the primary check and the scan computed the percentage of
\* a proper subset of the submitted subjects.
C9_Witness ==
  \E r \in Clients :
    /\ pc[r] = "returned"
    /\ recInvoked[r]
    /\ \E d \in pctArgs[r] : d # DOMAIN student[r].marks
    /\ \E c \in Courses : ~ Covers(student[r], c)

\* C10: check_course_eligibility(student) is True if and only if the desired
\* course is in recommend_alternatives(student); so the recommended_courses of
\* an ineligible response never contains the desired course.
C10_SamePolicy ==
  \A r \in Clients :
    Validated(r) =>
      LET st == student[r]
          e  == check_course_eligibility(st)
          ra == recommend_alternatives(st)
      IN /\ e.raised = "none" /\ ra.raised = "none"
         /\ (e.ret = TRUE) <=> InList(ra.ret, st.desired_course)
         /\ (Evaluated(r) /\ "recommended_courses" \in DOMAIN response[r])
              => ~ InList(response[r].recommended_courses, st.desired_course)

\* An ineligible student was recommended other courses of the desired
\* course's family, and not the desired course.
C10_Witness ==
  \E r \in Clients :
    LET st == student[r]
    IN /\ pc[r] = "returned"
       /\ ~ response[r].eligible
       /\ Len(response[r].recommended_courses) >= 1
       /\ \E i \in 1..Len(response[r].recommended_courses) :
            COURSE_RULES[response[r].recommended_courses[i]].subjs
              = COURSE_RULES[st.desired_course].subjs
       /\ ~ InList(response[r].recommended_courses, st.desired_course)

====
